---- MODULE Spec2Model ----
(***************************************************************************)
(* Lichen Social (src/main.py): register, login, create-post, feed and     *)
(* follow handlers over a relational store, guarded by a signed,           *)
(* time-limited bearer token.  Handlers are coroutines: each suspends at    *)
(* its store awaits, where the handlers of other requests may run.          *)
(***************************************************************************)
EXTENDS Integers, Sequences, FiniteSets, Bags, TLC

\* ------------------------------------------------------------------ bounds
\* rows the users table may be given ids for
MaxUsers == 2
\* rows the posts table may be given ids for
MaxPosts == 1
\* rows the follows table may hold
MaxFollows == 1
\* last instant of the clock (minutes)
MaxTime == 2
\* largest configured expiry window (minutes)
MaxExpire == 1
\* tokens clients may hold
MaxTokens == 2
\* requests a run serves
MaxRequests == 3
\* rows of the largest posts table a feed run starts from
MaxFeedPosts == 51
\* requests a feed run serves
MaxFeedRequests == 2

\* ------------------------------------------------------- program constants
SECRET_KEY == "change-me-in-prod"
\* LIMIT of the feed query
LIMIT == 50

\* ------------------------------------------------------------------ inputs
\* request slots: requests that may be in flight at once
Reqs == {"r1", "r2"}
Usernames == {"alice", "bob"}
Passwords == {"pw1", "pw2"}
\* bodies of POST /register: two share a username (with differing email and
\* password), two share an email
UserCreate ==
  { [username |-> "alice", email |-> "a@lichen", password |-> "pw1"],
    [username |-> "alice", email |-> "b@lichen", password |-> "pw2"],
    [username |-> "bob", email |-> "b@lichen", password |-> "pw1"] }
Contents == {"hello"}
Salts == {"s1"}
\* ids a follow request may name: every id the store can generate and one
\* that is never generated
TargetIds == (1..MaxUsers) \cup {999999}
\* values of ACCESS_TOKEN_EXPIRE_MINUTES the environment may configure
ExpireChoices == 1..MaxExpire

\* ------------------------------------------------------------------- state
VARIABLES
  users,          \* table users: set of rows [id, username, email, password_hash]
  posts,          \* table posts: rows [id, user_id, content, created_at] in commit order
  follows,        \* table follows: bag of rows [follower_id, following_id]
  nextUserId,     \* sequence behind users.id
  nextPostId,     \* sequence behind posts.id
  now,            \* the clock, in minutes
  expireMinutes,  \* ACCESS_TOKEN_EXPIRE_MINUTES as configured at startup
  uniqueUsers,    \* whether the users table carries UNIQUE(username), UNIQUE(email)
  issued,         \* tokens returned by login: [token, user_id, at]
  budget,         \* requests the run may still serve
  req             \* per request slot: the handler's position, locals and response

vars == <<users, posts, follows, nextUserId, nextPostId, now, expireMinutes,
          uniqueUsers, issued, budget, req>>

store == <<users, posts, follows>>

\* -------------------------------------------------------------- responses
Resp(status, detail, body) == [status |-> status, detail |-> detail, body |-> body]
NoResp == Resp(0, "", <<>>)
HTTPException(status, detail) == Resp(status, detail, <<>>)
\* an exception no handler catches: the framework answers 500
Unhandled(kind) == Resp(500, kind, <<>>)

\* ----------------------------------------------------------- int() / str()
Digits == <<"0", "1", "2", "3", "4", "5", "6", "7", "8", "9">>
DigitChars == {Digits[i] : i \in 1..10}
DigitValue(c) == (CHOOSE i \in 1..10 : Digits[i] = c) - 1

RECURSIVE Str(_)
\* str(n) for n >= 0: the decimal digits of n
Str(n) == IF n < 10 THEN <<Digits[n + 1]>>
          ELSE Str(n \div 10) \o <<Digits[(n % 10) + 1]>>

RECURSIVE DigitsToNat(_)
DigitsToNat(s) == IF s = <<>> THEN 0
                  ELSE 10 * DigitsToNat(SubSeq(s, 1, Len(s) - 1)) + DigitValue(s[Len(s)])

\* int(x): x is None -> TypeError; a string that is no decimal literal ->
\* ValueError; otherwise its value
ParseInt(has, s) ==
  IF ~has THEN [err |-> "TypeError", val |-> 0]
  ELSE LET signed == Len(s) > 0 /\ s[1] \in {"+", "-"}
           body == IF signed THEN Tail(s) ELSE s
       IN IF body = <<>> \/ \E i \in 1..Len(body) : body[i] \notin DigitChars
          THEN [err |-> "ValueError", val |-> 0]
          ELSE [err |-> "none",
                val |-> IF signed /\ s[1] = "-" THEN 0 - DigitsToNat(body)
                        ELSE DigitsToNat(body)]

\* --------------------------------------------------------- password hasher
\* a salted one-way digest: equal only for the same salt and plaintext
get_password_hash(password, salt) == [salt |-> salt, digest |-> <<salt, password>>]
verify_password(plain, hashed) == hashed.digest = <<hashed.salt, plain>>

\* ------------------------------------------------------------- token codec
NoToken == [key |-> "", has_sub |-> FALSE, sub |-> <<>>, exp |-> 0]
JwtEncode(has_sub, sub, exp, key) == [key |-> key, has_sub |-> has_sub, sub |-> sub, exp |-> exp]
\* a decode that checks the signature and not the expiry
JwtDecodeSkipsExp(token, t) == token.key # SECRET_KEY

\* a decode that checks the expiry and not the signature
JwtDecodeSkipsSignature(token, t) == token.exp < t

\* a decode that also turns down a token once login has issued a later one
\* for the same sub
JwtDecodeRevokes(token, t) ==
  \/ token.key # SECRET_KEY
  \/ token.exp < t
  \/ \E j \in issued : j.token.sub = token.sub /\ j.token.exp > token.exp

\* jwt.decode: JWTError on a bad signature or an expired token (exp < now)
JwtDecodeFails(token, t) == token.key # SECRET_KEY \/ token.exp < t

\* an expiry one unit past the configured window
CreateAccessTokenLate(sub, t, minutes) == JwtEncode(TRUE, sub, t + minutes + 1, SECRET_KEY)

\* lines 53-57: exp = utcnow() + ACCESS_TOKEN_EXPIRE_MINUTES
create_access_token(sub, t, minutes) == JwtEncode(TRUE, sub, t + minutes, SECRET_KEY)

\* tokens a client can make up without logging in: one signed with another
\* key, and two signed with the server's key whose sub is absent / no number
CraftedTokens ==
  { JwtEncode(TRUE, Str(1), MaxTime + 1, "other-key"),
    JwtEncode(FALSE, <<>>, MaxTime + 1, SECRET_KEY),
    JwtEncode(TRUE, <<"a">>, MaxTime + 1, SECRET_KEY) }

\* what a request may carry as its bearer credential
Presentable == {i.token : i \in issued} \cup CraftedTokens \cup {NoToken}

\* ----------------------------------------------------------- session guard
GuardOk(user_id) == [ok |-> TRUE, user_id |-> user_id, resp |-> NoResp]
GuardRaise(resp) == [ok |-> FALSE, user_id |-> 0, resp |-> resp]

get_current_user(token, t) ==
  IF token = NoToken THEN GuardRaise(HTTPException(401, "Not authenticated"))
  ELSE IF JwtDecodeFails(token, t) THEN GuardRaise(HTTPException(401, "Invalid token"))
  ELSE LET n == ParseInt(token.has_sub, token.sub)
       IN IF n.err # "none" THEN GuardRaise(Unhandled(n.err))
          ELSE GuardOk(n.val)

\* ------------------------------------------------------------ request slots
Idle ==
  [op |-> "idle", pc |-> "idle", username |-> "", email |-> "", password |-> "",
   token |-> NoToken, content |-> "", target_id |-> 0, user_id |-> 0,
   pending |-> <<>>, resp |-> NoResp, session |-> "none", known |-> FALSE,
   later |-> FALSE]
\* known: history, set when a register request arrives: a committed user
\* already held its username or its email
\* later: history, set when a request with a token arrives: login has since
\* issued another token for the same user

\* a get_db that closes the session after the yield without `async with`:
\* an exception raised in the handler skips the close
FinishLeaks(r, resp) ==
  [req[r] EXCEPT !.pc = "done", !.resp = resp, !.pending = <<>>,
                 !.session = IF req[r].session = "open" /\ resp.status = 200
                             THEN "closed" ELSE req[r].session]

\* a handler returns or raises: the response goes out and get_db's
\* `async with` closes the session, dropping what was not committed
Finish(r, resp) ==
  [req[r] EXCEPT !.pc = "done", !.resp = resp, !.pending = <<>>,
                 !.session = IF req[r].session = "open" THEN "closed" ELSE req[r].session]

\* slot r can take a request; an arriving request takes r1 when it is free
Free(r) == req[r].pc = "idle" /\ (r = "r1" \/ req["r1"].pc # "idle") /\ budget > 0

Init ==
  /\ users = {}
  /\ posts = <<>>
  /\ follows = EmptyBag
  /\ nextUserId = 1
  /\ nextPostId = 1
  /\ now = 0
  /\ expireMinutes \in ExpireChoices
  /\ uniqueUsers \in BOOLEAN
  /\ issued = {}
  /\ budget = MaxRequests
  /\ req = [r \in Reqs |-> Idle]

\* ----------------------------------------------------------------- register
\* a committed user holds the username or the email
Taken(username, email) == \E u \in users : u.username = username \/ u.email = email

\* the existence check, had it compared the username alone
ExistingByUsername(username, email) == {u \in users : u.username = username}

\* rows the existence SELECT of register matches
Existing(username, email) == {u \in users : u.username = username \/ u.email = email}

\* requests of kind op that have yet to run their INSERT
Inserting(op) == {q \in Reqs : req[q].op = op /\ req[q].pc \in {"select", "insert"}}

StartRegister(r) ==
  /\ Free(r)
  /\ budget' = budget - 1
  /\ nextUserId + Cardinality(Inserting("register")) <= MaxUsers
  /\ \E user \in UserCreate :
       req' = [req EXCEPT ![r] = [Idle EXCEPT !.op = "register", !.pc = "select",
                                   !.username = user.username, !.email = user.email,
                                   !.password = user.password, !.session = "open",
                                   !.known = Taken(user.username, user.email)]]
  /\ UNCHANGED <<users, posts, follows, nextUserId, nextPostId, now, expireMinutes,
                 uniqueUsers, issued>>

RegisterSelect(r) ==
  /\ req[r].op = "register" /\ req[r].pc = "select"
  /\ req' = [req EXCEPT ![r] =
               IF Existing(req[r].username, req[r].email) # {}
               THEN Finish(r, HTTPException(400, "User already exists"))
               ELSE [req[r] EXCEPT !.pc = "insert"]]
  /\ UNCHANGED <<budget, users, posts, follows, nextUserId, nextPostId, now, expireMinutes,
                 uniqueUsers, issued>>

\* another request's uncommitted row with the same username or email: under
\* a UNIQUE constraint the INSERT waits for that transaction to end
Blocked(r) ==
  \E q \in Reqs \ {r} :
    /\ req[q].op = "register" /\ req[q].pending # <<>>
    /\ \/ req[q].pending[1].username = req[r].username
       \/ req[q].pending[1].email = req[r].email

RegisterInsert(r) ==
  /\ req[r].op = "register" /\ req[r].pc = "insert"
  /\ uniqueUsers => ~Blocked(r)
  /\ \E salt \in Salts :
       LET hashed == get_password_hash(req[r].password, salt)
           row == [id |-> nextUserId, username |-> req[r].username,
                   email |-> req[r].email, password_hash |-> hashed]
       IN req' = [req EXCEPT ![r] =
                    IF uniqueUsers /\ Existing(req[r].username, req[r].email) # {}
                    THEN Finish(r, Unhandled("IntegrityError"))
                    ELSE [req[r] EXCEPT !.pc = "commit", !.pending = <<row>>]]
  /\ nextUserId' = nextUserId + 1
  /\ UNCHANGED <<budget, users, posts, follows, nextPostId, now, expireMinutes, uniqueUsers, issued>>

\* INSERT OR REPLACE: the new row takes the place of the rows it conflicts with
RegisterReplaces(r) ==
  /\ req[r].op = "register" /\ req[r].pc = "commit"
  /\ users' = (users \ Existing(req[r].username, req[r].email)) \cup {req[r].pending[1]}
  /\ req' = [req EXCEPT ![r] =
               Finish(r, Resp(200, "User created", <<>>))]
  /\ UNCHANGED <<budget, posts, follows, nextUserId, nextPostId, now, expireMinutes, uniqueUsers, issued>>

\* register without line 86: the session closes on an uncommitted INSERT
RegisterWithoutCommit(r) ==
  /\ req[r].op = "register" /\ req[r].pc = "commit"
  /\ req' = [req EXCEPT ![r] =
               Finish(r, Resp(200, "User created", <<>>))]
  /\ UNCHANGED <<budget, users, posts, follows, nextUserId, nextPostId, now, expireMinutes,
                 uniqueUsers, issued>>

RegisterCommit(r) ==
  /\ req[r].op = "register" /\ req[r].pc = "commit"
  /\ users' = users \cup {req[r].pending[1]}
  /\ req' = [req EXCEPT ![r] =
               Finish(r, Resp(200, "User created", <<>>))]
  /\ UNCHANGED <<budget, posts, follows, nextUserId, nextPostId, now, expireMinutes, uniqueUsers, issued>>

\* -------------------------------------------------------------------- login
StartLogin(r) ==
  /\ Free(r)
  /\ budget' = budget - 1
  /\ Cardinality(issued) < MaxTokens
  /\ \E username \in Usernames, password \in Passwords :
       req' = [req EXCEPT ![r] = [Idle EXCEPT !.op = "login", !.pc = "select",
                                   !.username = username, !.password = password,
                                   !.session = "open"]]
  /\ UNCHANGED <<users, posts, follows, nextUserId, nextPostId, now, expireMinutes,
                 uniqueUsers, issued>>

\* what fetchone() can return for the login SELECT: no row, or any one of the
\* matching rows (the store picks)
LoginRows(username) ==
  LET m == {u \in users : u.username = username}
  IN IF m = {} THEN {<<>>} ELSE {<<u>> : u \in m}

\* line 93: the credentials are refused
LoginRefused(user, password) ==
  user = <<>> \/ ~verify_password(password, user[1].password_hash)

\* a failure that tells an unknown user from a wrong password
LoginFailureTelling(user) ==
  IF user = <<>> THEN HTTPException(401, "No such user")
  ELSE HTTPException(401, "Mauvais combo")

LoginFailure(user) == HTTPException(401, "Mauvais combo")

LoginSelect(r) ==
  /\ req[r].op = "login" /\ req[r].pc = "select"
  /\ \E user \in LoginRows(req[r].username) :
       IF LoginRefused(user, req[r].password)
       THEN /\ req' = [req EXCEPT ![r] = Finish(r, LoginFailure(user))]
            /\ UNCHANGED issued
       ELSE LET token == create_access_token(Str(user[1].id), now, expireMinutes)
            IN /\ req' = [req EXCEPT ![r] =
                            Finish(r, Resp(200, "bearer", <<token>>))]
               /\ issued' = issued \cup {[token |-> token, user_id |-> user[1].id, at |-> now]}
  /\ UNCHANGED <<budget, users, posts, follows, nextUserId, nextPostId, now, expireMinutes, uniqueUsers>>

\* -------------------------------------------------------- authenticated ops
\* login issued the token and, later, another one for the same user
Superseded(token) ==
  \E i \in issued, j \in issued :
    i.token = token /\ j.user_id = i.user_id /\ j.at > i.at

\* Depends(get_current_user) runs before Depends(get_db): a request the guard
\* rejects never opens a session
Guarded(r, op, next, token, content, target_id) ==
  LET g == get_current_user(token, now)
      call == [Idle EXCEPT !.op = op, !.token = token, !.content = content,
                           !.target_id = target_id, !.later = Superseded(token)]
  IN IF g.ok
     THEN [call EXCEPT !.pc = next, !.user_id = g.user_id, !.session = "open"]
     ELSE [call EXCEPT !.pc = "done", !.resp = g.resp]

\* -------------------------------------------------------------- create_post
StartCreatePost(r) ==
  /\ Free(r)
  /\ budget' = budget - 1
  /\ nextPostId + Cardinality(Inserting("create_post")) <= MaxPosts
  /\ \E token \in Presentable, content \in Contents :
       req' = [req EXCEPT ![r] = Guarded(r, "create_post", "insert", token, content, 0)]
  /\ UNCHANGED <<users, posts, follows, nextUserId, nextPostId, now, expireMinutes,
                 uniqueUsers, issued>>

CreatePostInsert(r) ==
  /\ req[r].op = "create_post" /\ req[r].pc = "insert"
  /\ LET row == [id |-> nextPostId, user_id |-> req[r].user_id,
                 content |-> req[r].content, created_at |-> now]
     IN req' = [req EXCEPT ![r] = [req[r] EXCEPT !.pc = "commit", !.pending = <<row>>]]
  /\ nextPostId' = nextPostId + 1
  /\ UNCHANGED <<budget, users, posts, follows, nextUserId, now, expireMinutes, uniqueUsers, issued>>

CreatePostCommit(r) ==
  /\ req[r].op = "create_post" /\ req[r].pc = "commit"
  /\ LET new_post == req[r].pending[1]
     IN /\ posts' = Append(posts, new_post)
        /\ req' = [req EXCEPT ![r] =
                     Finish(r, Resp(200, "", <<[id |-> new_post.id, content |-> req[r].content,
                                                created_at |-> new_post.created_at]>>))]
  /\ UNCHANGED <<budget, users, follows, nextUserId, nextPostId, now, expireMinutes, uniqueUsers, issued>>

\* --------------------------------------------------------------------- feed
\* the join without its WHERE clause
MatchesAnyFollower(f, p, user_id) == p.user_id = f.following_id

\* a join that also lets the caller's own posts through
MatchesOrOwn(f, p, user_id) ==
  (p.user_id = f.following_id \/ p.user_id = user_id) /\ f.follower_id = user_id

\* JOIN follows f ON p.user_id = f.following_id WHERE f.follower_id = $1
Matches(f, p, user_id) == p.user_id = f.following_id /\ f.follower_id = user_id

RECURSIVE Copies(_, _)
Copies(p, k) == IF k = 0 THEN <<>> ELSE <<p>> \o Copies(p, k - 1)

\* follows rows the post p joins with, each counted as often as it is stored
MatchCount(fs, p, user_id) ==
  BagCardinality([f \in {g \in BagToSet(fs) : Matches(g, p, user_id)} |-> fs[f]])

RECURSIVE JoinRows(_, _, _)
\* the join: one row per pair of a post and a follows row that match
JoinRows(ps, fs, user_id) ==
  IF ps = <<>> THEN <<>>
  ELSE LET p == ps[Len(ps)]
       IN JoinRows(SubSeq(ps, 1, Len(ps) - 1), fs, user_id)
            \o Copies(p, MatchCount(fs, p, user_id))

RECURSIVE Reverse(_)
Reverse(s) == IF s = <<>> THEN <<>> ELSE Reverse(Tail(s)) \o <<Head(s)>>

\* the order the store hands rows of equal created_at in is its own: here the
\* order the join produced them in, or its reverse
ScanOrders == {"forward", "backward"}
Scan(rows, scan) == IF scan = "forward" THEN rows ELSE Reverse(rows)

MaxStamp(rows) ==
  IF rows = <<>> THEN 0
  ELSE LET S == {rows[i].created_at : i \in 1..Len(rows)}
       IN CHOOSE t \in S : \A u \in S : u <= t

RECURSIVE Descending(_, _)
\* rows with created_at <= t, latest first, rows of one instant kept in order
Descending(rows, t) ==
  IF t < 0 THEN <<>>
  ELSE SelectSeq(rows, LAMBDA p : p.created_at = t) \o Descending(rows, t - 1)

RECURSIVE Ascending(_, _)
Ascending(rows, t) ==
  IF t < 0 THEN <<>>
  ELSE Ascending(rows, t - 1) \o SelectSeq(rows, LAMBDA p : p.created_at = t)

\* ORDER BY p.created_at, without DESC
OrderByAscending(rows) == Ascending(rows, MaxStamp(rows))

\* ORDER BY p.created_at DESC
OrderBy(rows) == Descending(rows, MaxStamp(rows))

\* LIMIT 50
Limit(rows) == SubSeq(rows, 1, IF Len(rows) < LIMIT THEN Len(rows) ELSE LIMIT)

\* the query with LIMIT applied before ORDER BY
FeedQueryLimitFirst(ps, fs, user_id, scan) ==
  OrderBy(Limit(Scan(JoinRows(ps, fs, user_id), scan)))

FeedQuery(ps, fs, user_id, scan) == Limit(OrderBy(Scan(JoinRows(ps, fs, user_id), scan)))

\* line 121: the response entry of a row
PostOut(p) == [id |-> p.id, content |-> p.content, user_id |-> p.user_id,
               created_at |-> p.created_at]

RECURSIVE FeedOut(_)
\* line 121: the response list, one entry per row
FeedOut(rows) == IF rows = <<>> THEN <<>> ELSE <<PostOut(Head(rows))>> \o FeedOut(Tail(rows))

StartFeed(r) ==
  /\ Free(r)
  /\ budget' = budget - 1
  /\ \E token \in Presentable :
       req' = [req EXCEPT ![r] = Guarded(r, "feed", "select", token, "", 0)]
  /\ UNCHANGED <<users, posts, follows, nextUserId, nextPostId, now, expireMinutes,
                 uniqueUsers, issued>>

FeedSelect(r) ==
  /\ req[r].op = "feed" /\ req[r].pc = "select"
  /\ \E scan \in ScanOrders :
       req' = [req EXCEPT ![r] =
                 Finish(r, Resp(200, "", FeedOut(FeedQuery(posts, follows, req[r].user_id, scan))))]
  /\ UNCHANGED <<budget, users, posts, follows, nextUserId, nextPostId, now, expireMinutes,
                 uniqueUsers, issued>>

\* ------------------------------------------------------------------- follow
StartFollow(r) ==
  /\ Free(r)
  /\ budget' = budget - 1
  /\ \E token \in Presentable, target_id \in TargetIds :
       LET call == Guarded(r, "follow", "insert", token, "", target_id)
           edge == [follower_id |-> call.user_id, following_id |-> target_id]
       IN /\ call.pc = "insert" => Cardinality(BagToSet(follows) \cup {edge}) <= MaxFollows
          /\ req' = [req EXCEPT ![r] = call]
  /\ UNCHANGED <<users, posts, follows, nextUserId, nextPostId, now, expireMinutes,
                 uniqueUsers, issued>>

\* another request's uncommitted row for the same pair: the INSERT waits for
\* that transaction to end before it decides whether there is a conflict
FollowBlocked(r) ==
  \E q \in Reqs \ {r} :
    /\ req[q].op = "follow" /\ req[q].pending # <<>>
    /\ req[q].pending[1].follower_id = req[r].user_id
    /\ req[q].pending[1].following_id = req[r].target_id

\* the row with its columns the wrong way round
FollowRowSwapped(user_id, target_id) == [follower_id |-> target_id, following_id |-> user_id]

\* lines 126-127: VALUES ($1, $2) with user_id, target_id
FollowRow(user_id, target_id) == [follower_id |-> user_id, following_id |-> target_id]

\* INSERT without a conflict clause: the row is added whatever the table holds
InsertAlways(edge, rows) == <<edge>>

\* INSERT ... ON CONFLICT DO NOTHING: the rows the statement adds to a table
\* holding rows: none when the pair is already there
OnConflictDoNothing(edge, rows) == IF BagIn(edge, rows) THEN <<>> ELSE <<edge>>

\* a follow that answers 404 for a target no user has
FollowAckKnownOnly(target_id) ==
  IF \E u \in users : u.id = target_id
  THEN Resp(200, "Tu suis maintenant", <<target_id>>)
  ELSE HTTPException(404, "User not found")

\* line 130: the acknowledgment, which names the target
FollowAck(target_id) == Resp(200, "Tu suis maintenant", <<target_id>>)

FollowInsert(r) ==
  /\ req[r].op = "follow" /\ req[r].pc = "insert"
  /\ ~FollowBlocked(r)
  /\ LET edge == FollowRow(req[r].user_id, req[r].target_id)
     IN req' = [req EXCEPT ![r] =
                  [req[r] EXCEPT !.pc = "commit",
                                 !.pending = OnConflictDoNothing(edge, follows)]]
  /\ UNCHANGED <<budget, users, posts, follows, nextUserId, nextPostId, now, expireMinutes,
                 uniqueUsers, issued>>

FollowCommit(r) ==
  /\ req[r].op = "follow" /\ req[r].pc = "commit"
  /\ follows' = follows (+) SetToBag({req[r].pending[i] : i \in 1..Len(req[r].pending)})
  /\ req' = [req EXCEPT ![r] = Finish(r, FollowAck(req[r].target_id))]
  /\ UNCHANGED <<budget, users, posts, nextUserId, nextPostId, now, expireMinutes, uniqueUsers, issued>>

\* --------------------------------------------------------------------- root
Root(r) ==
  /\ Free(r)
  /\ budget' = budget - 1
  /\ req' = [req EXCEPT ![r] = [Idle EXCEPT !.op = "root", !.pc = "done",
                                 !.resp = Resp(200, "Lichen Social est LIVE", <<>>)]]
  /\ UNCHANGED <<users, posts, follows, nextUserId, nextPostId, now, expireMinutes,
                 uniqueUsers, issued>>

\* ------------------------------------------------------------ housekeeping
\* the client has its response; the slot serves the next request
Release(r) ==
  /\ req[r].pc = "done"
  /\ req' = [req EXCEPT ![r] = Idle]
  /\ UNCHANGED <<budget, users, posts, follows, nextUserId, nextPostId, now, expireMinutes,
                 uniqueUsers, issued>>

Tick ==
  /\ now < MaxTime
  /\ now' = now + 1
  /\ UNCHANGED <<users, posts, follows, nextUserId, nextPostId, expireMinutes,
                 uniqueUsers, issued, budget, req>>

Next ==
  \/ Tick
  \/ \E r \in Reqs :
       \/ StartRegister(r) \/ RegisterSelect(r) \/ RegisterInsert(r) \/ RegisterCommit(r)
       \/ StartLogin(r) \/ LoginSelect(r)
       \/ StartCreatePost(r) \/ CreatePostInsert(r) \/ CreatePostCommit(r)
       \/ StartFeed(r) \/ FeedSelect(r)
       \/ StartFollow(r) \/ FollowInsert(r) \/ FollowCommit(r)
       \/ Root(r)
       \/ Release(r)

Spec == Init /\ [][Next]_vars

\* ------------------------------------------------- runs over a filled store
\* The store outlives the process: a run may start from tables earlier runs
\* filled.  alice (id 1) and bob (id 2) are registered.
Registered ==
  { [id |-> 1, username |-> "alice", email |-> "a@lichen",
     password_hash |-> get_password_hash("pw1", "s1")],
    [id |-> 2, username |-> "bob", email |-> "b@lichen",
     password_hash |-> get_password_hash("pw1", "s1")] }

\* nobody is logged in, nothing is posted, nobody follows anybody
InitAuth ==
  /\ users = Registered
  /\ nextUserId = 3
  /\ posts = <<>>
  /\ follows = EmptyBag
  /\ nextPostId = 1
  /\ now = 0
  /\ expireMinutes = MaxExpire
  /\ uniqueUsers = TRUE
  /\ issued = {}
  /\ budget = MaxRequests
  /\ req = [r \in Reqs |-> Idle]

NextAuth ==
  \/ Tick
  \/ \E r \in Reqs :
       \/ StartLogin(r) \/ LoginSelect(r)
       \/ StartCreatePost(r) \/ CreatePostInsert(r) \/ CreatePostCommit(r)
       \/ StartFeed(r) \/ FeedSelect(r)
       \/ StartFollow(r) \/ FollowInsert(r) \/ FollowCommit(r)
       \/ Root(r)
       \/ Release(r)

SpecAuth == InitAuth /\ [][NextAuth]_vars

\* alice and bob are also logged in, and the posts table holds n rows in one
\* of a few shapes.
FeedSizes == {0} \cup (LIMIT..MaxFeedPosts)
\* authors: all rows by bob; rows by alice and bob in turn; the first row by
\* alice and the rest by bob.  created_at: one instant per row; two rows per
\* instant; one instant for all rows.
FeedShapes ==
  { <<"bob", "distinct">>, <<"bob", "same">>, <<"mixed", "distinct">>,
    <<"mixed", "pairs">>, <<"guest", "pairs">> }

FeedTable(n, authors, stamps) ==
  [i \in 1..n |->
     [id |-> i,
      user_id |-> CASE authors = "bob" -> 2
                    [] authors = "mixed" -> 1 + (i % 2)
                    [] OTHER -> IF i = 1 THEN 1 ELSE 2,
      content |-> IF i % 3 = 0 THEN "lichen" ELSE "hello",
      created_at |-> CASE stamps = "distinct" -> i
                       [] stamps = "pairs" -> (i + 1) \div 2
                       [] OTHER -> 0]]

Edge(a, b) == [follower_id |-> a, following_id |-> b]
FeedFollows == { {}, {Edge(1, 2)}, {Edge(1, 2), Edge(2, 1)}, {Edge(1, 1), Edge(1, 2)} }

InitFeed ==
  /\ users = Registered
  /\ nextUserId = 3
  /\ \E n \in FeedSizes, shape \in FeedShapes :
       /\ posts = FeedTable(n, shape[1], shape[2])
       /\ nextPostId = n + 1
       /\ now = MaxStamp(FeedTable(n, shape[1], shape[2]))
  /\ \E fs \in FeedFollows : follows = SetToBag(fs)
  /\ expireMinutes = MaxExpire
  /\ uniqueUsers = TRUE
  /\ issued = { [token |-> create_access_token(Str(id), now, expireMinutes),
                 user_id |-> id, at |-> now] : id \in {1, 2} }
  /\ budget = MaxFeedRequests
  /\ req = [r \in Reqs |-> Idle]

NextFeed ==
  \E r \in Reqs :
    \/ StartCreatePost(r) \/ CreatePostInsert(r) \/ CreatePostCommit(r)
    \/ StartFeed(r) \/ FeedSelect(r)
    \/ StartFollow(r) \/ FollowInsert(r) \/ FollowCommit(r)
    \/ Release(r)

SpecFeed == InitFeed /\ [][NextFeed]_vars

\* alice alone is registered and the window is configured one minute longer:
\* a token outlives a tick of the clock
InitSession ==
  /\ users = {u \in Registered : u.username = "alice"}
  /\ nextUserId = 2
  /\ posts = <<>>
  /\ follows = EmptyBag
  /\ nextPostId = 1
  /\ now = 0
  /\ expireMinutes = MaxExpire + 1
  /\ uniqueUsers = TRUE
  /\ issued = {}
  /\ budget = MaxRequests
  /\ req = [r \in Reqs |-> Idle]

SpecSession == InitSession /\ [][Next]_vars
\* ================================================================== claims
AuthOps == {"create_post", "feed", "follow"}
\* slot r takes a request for an authenticated endpoint in this step
Arrives(r) == req[r].pc = "idle" /\ req'[r].op \in AuthOps
\* slot r's feed query runs in this step
FeedRuns(r) == req[r].op = "feed" /\ req[r].pc = "select" /\ req'[r].pc = "done"
\* the plaintext a stored hash was made from
RegisteredPassword(u) == u.password_hash.digest[2]
Follows(a, b) == BagIn([follower_id |-> a, following_id |-> b], follows)

\* C1: in every reachable state no two User records share a username and no
\* two share an email, concurrent registrations included.
C1_UsersUnique ==
  \A u \in users, v \in users :
    u # v => u.username # v.username /\ u.email # v.email

\* C2: a register request that arrives after a user with the same username
\* or the same email was committed fails with 400 "User already exists" and
\* inserts no User record.
C2_LaterRegisterConflicts ==
  [][\A r \in Reqs :
       /\ (req[r].op = "register" /\ req[r].known /\ req'[r] # req[r] /\ req[r].pc # "done")
            => /\ req'[r].pc = "done"
               /\ req'[r].resp = HTTPException(400, "User already exists")
               /\ users' = users
       /\ (req'[r].op = "register" /\ req'[r].known) => req'[r].pc \in {"select", "done"}
    ]_vars

\* a second registration of alice's username under another email was refused
C2_Witness ==
  \E r \in Reqs :
    /\ req[r].op = "register" /\ req[r].known /\ req[r].pc = "done"
    /\ req[r].resp.status = 400
    /\ \E u \in users : u.username = req[r].username /\ u.email # req[r].email
    /\ Cardinality(users) = 1

\* C3: for every registered user, a login with that user's username returns
\* a token if and only if the password is the one given at that user's
\* registration; an unregistered username gets 401 and no token.
C3_LoginIffRegisteredPassword ==
  [][\A r \in Reqs :
       (req[r].op = "login" /\ req[r].pc = "select" /\ req'[r].pc = "done")
         => LET granted == req'[r].resp.status = 200 /\ req'[r].resp.body # <<>>
                mine == {u \in users : u.username = req[r].username}
            IN /\ \A u \in mine : granted <=> RegisteredPassword(u) = req[r].password
               /\ mine = {} => ~granted /\ req'[r].resp.status = 401
               /\ ~granted => req'[r].resp.status = 401 /\ req'[r].resp.body = <<>>
    ]_vars

\* C4: a token login issued for user u at time t resolves to u at any time
\* before t + the expiry window, and is rejected with 401 at any time after.
C4_TokenValidWithinWindow ==
  [][\A r \in Reqs : \A i \in issued :
       (Arrives(r) /\ req'[r].token = i.token)
         => /\ now < i.at + expireMinutes
                 => req'[r].pc # "done" /\ req'[r].user_id = i.user_id
            /\ now > i.at + expireMinutes
                 => req'[r].pc = "done" /\ req'[r].resp.status = 401
    ]_vars

\* one issued token, accepted for one request and, later, refused for another
C4_Witness ==
  \E r \in Reqs, q \in Reqs : \E i \in issued :
    /\ req[r].token = i.token /\ req[q].token = i.token
    /\ req[r].op = "feed" /\ req[r].pc = "done" /\ req[r].resp.status = 200
    /\ req[r].user_id = i.user_id
    /\ req[q].op \in AuthOps /\ req[q].pc = "done" /\ req[q].resp.status = 401
    /\ now > i.at + expireMinutes

\* C5: whatever token is presented, the Session Guard yields a user identity
\* or 401, also for a signed, unexpired token whose sub is missing or is no
\* integer.
C5_GuardYieldsIdentityOr401 ==
  \A r \in Reqs :
    (req[r].op \in AuthOps /\ req[r].pc = "done") => req[r].resp.status \in {200, 401}

\* C6: a failed login answers the same whether the username is unknown or
\* the password is wrong: any two failed logins carry the same response.
C6_LoginFailuresAlike ==
  \A r \in Reqs, q \in Reqs :
    ( /\ req[r].op = "login" /\ req[r].pc = "done" /\ req[r].resp.body = <<>>
      /\ req[q].op = "login" /\ req[q].pc = "done" /\ req[q].resp.body = <<>> )
      => req[r].resp = req[q].resp /\ req[r].resp.status = 401

\* two failed logins with one password side by side: a registered username
\* with the wrong password, and a username nobody registered
C6_Witness ==
  \E r \in Reqs, q \in Reqs :
    /\ req[r].op = "login" /\ req[r].pc = "done" /\ req[r].resp.status = 401
    /\ req[q].op = "login" /\ req[q].pc = "done" /\ req[q].resp.status = 401
    /\ req[r].password = req[q].password
    /\ \E u \in users : u.username = req[r].username
                         /\ RegisteredPassword(u) # req[r].password
    /\ ~\E u \in users : u.username = req[q].username

\* C7: a feed response for caller c holds at most 50 posts, each by a user x
\* for whom the Follow edge (c, x) is in the store when the query runs.
C7_FeedFollowedOnlyAtMost50 ==
  [][\A r \in Reqs :
       FeedRuns(r)
         => LET body == req'[r].resp.body
            IN /\ Len(body) <= 50
               /\ \A i \in 1..Len(body) : Follows(req[r].user_id, body[i].user_id)
    ]_vars

\* a full feed of 50 posts, from a store that also holds posts of a user the
\* caller does not follow
C7_Witness ==
  \E r \in Reqs :
    /\ req[r].op = "feed" /\ req[r].pc = "done" /\ Len(req[r].resp.body) = 50
    /\ \E k \in 1..Len(posts) : ~Follows(req[r].user_id, posts[k].user_id)

\* C8: a feed response is ordered by created_at descending: no post is
\* listed after a post with an earlier created_at.
C8_FeedNewestFirst ==
  [][\A r \in Reqs :
       FeedRuns(r)
         => LET body == req'[r].resp.body
            IN \A i \in 1..Len(body) : \A j \in 1..Len(body) :
                 i < j => body[i].created_at >= body[j].created_at
    ]_vars

\* a feed whose posts differ in created_at and also share one
C8_Witness ==
  \E r \in Reqs :
    /\ req[r].op = "feed" /\ req[r].pc = "done"
    /\ LET body == req[r].resp.body
       IN /\ \E i \in 1..Len(body) : \E j \in 1..Len(body) :
               body[i].created_at > body[j].created_at
          /\ \E i \in 1..Len(body) : \E j \in 1..Len(body) :
               i # j /\ body[i].created_at = body[j].created_at

\* the posts in the store whose author u follows
FollowedPosts(u) == SelectSeq(posts, LAMBDA p : Follows(u, p.user_id))

Range(s) == {s[i] : i \in 1..Len(s)}

\* shown (the response entries, oldest created_at low) is a complete feed
\* over the stored posts cand: min(50, n) entries, each once, each equal to a
\* stored post in id, content, user_id and created_at, and no post left out
\* is later than one shown
CompleteOver(len, shown, low, cand) ==
  /\ len = IF Cardinality(cand) < 50 THEN Cardinality(cand) ELSE 50
  /\ Cardinality({p.id : p \in shown}) = len
  /\ shown \subseteq cand
  /\ \A p \in cand \ shown : p.created_at <= low

Oldest(body) ==
  IF body = <<>> THEN 0
  ELSE LET S == {body[i].created_at : i \in 1..Len(body)}
       IN CHOOSE t \in S : \A u \in S : t <= u

Complete(body, cand) == CompleteOver(Len(body), Range(body), Oldest(body), Range(cand))

\* C9: with n posts in the store by users the caller follows, the feed holds
\* exactly min(50, n) of them, each once and as stored, and no omitted one is
\* later than a returned one.
C9_FeedComplete ==
  [][\A r \in Reqs :
       FeedRuns(r) => Complete(req'[r].resp.body, FollowedPosts(req[r].user_id))
    ]_vars

\* a feed of 50 posts that leaves followed posts out
C9_Witness ==
  \E r \in Reqs :
    /\ req[r].op = "feed" /\ req[r].pc = "done" /\ Len(req[r].resp.body) = 50
    /\ Cardinality({k \in 1..Len(posts) : Follows(req[r].user_id, posts[k].user_id)}) > 50

\* the end-to-end case of C9: bob (id 2) has posted "hello", alice (id 1)
\* follows bob, and alice's feed is that one post
C9_Scenario ==
  \E r \in Reqs :
    /\ Len(posts) = 1 /\ posts[1].user_id = 2 /\ posts[1].content = "hello"
    /\ follows = SetToBag({Edge(1, 2)})
    /\ req[r].op = "feed" /\ req[r].pc = "done" /\ req[r].user_id = 1
    /\ req[r].resp.body = <<PostOut(posts[1])>>

\* C10: a post by u is in u's own feed only if the Follow edge (u, u)
\* exists, and the feed of a user who follows no one is empty however many
\* posts that user has; with the edge (u, u), u's posts are in the feed
\* (all of them when the feed is not cut at 50).
C10_OwnPostsNeedSelfFollow ==
  [][\A r \in Reqs :
       FeedRuns(r)
         => LET body == req'[r].resp.body
                u == req[r].user_id
                followed == {k \in 1..Len(posts) : Follows(u, posts[k].user_id)}
            IN /\ \A i \in 1..Len(body) : body[i].user_id = u => Follows(u, u)
               /\ (~\E f \in BagToSet(follows) : f.follower_id = u) => body = <<>>
               /\ (Follows(u, u) /\ Cardinality(followed) <= 50)
                    => \A k \in 1..Len(posts) :
                         posts[k].user_id = u => \E i \in 1..Len(body) : body[i].id = posts[k].id
    ]_vars

\* u follows u, and u's feed shows a post of u
C10_Witness ==
  \E r \in Reqs :
    /\ req[r].op = "feed" /\ req[r].pc = "done"
    /\ Follows(req[r].user_id, req[r].user_id)
    /\ \E i \in 1..Len(req[r].resp.body) : req[r].resp.body[i].user_id = req[r].user_id

\* slot r's follow request commits and answers in this step
FollowEnds(r) == req[r].op = "follow" /\ req[r].pc = "commit" /\ req'[r].pc = "done"

\* C11: however many follow(target) requests a caller makes, one after the
\* other or at once, each of them succeeds, the store then holds the Follow
\* edge (caller, target) exactly once, and a feed lists no post twice.
C11_FollowIdempotent ==
  [][\A r \in Reqs :
       /\ FollowEnds(r)
            => /\ req'[r].resp.status = 200
               /\ CopiesIn(Edge(req[r].user_id, req[r].target_id), follows') = 1
       /\ FeedRuns(r)
            => Cardinality({req'[r].resp.body[i].id : i \in 1..Len(req'[r].resp.body)})
                 = Len(req'[r].resp.body)
    ]_vars

\* two follow requests of one caller for one target have both succeeded
C11_Witness ==
  /\ req["r1"].op = "follow" /\ req["r1"].pc = "done" /\ req["r1"].resp.status = 200
  /\ req["r2"].op = "follow" /\ req["r2"].pc = "done" /\ req["r2"].resp.status = 200
  /\ req["r1"].user_id = req["r2"].user_id
  /\ req["r1"].target_id = req["r2"].target_id
  /\ CopiesIn(Edge(req["r1"].user_id, req["r1"].target_id), follows) = 1

\* the feed of a caller who followed, again, a user whose posts are stored
C11_FeedAfterFollow ==
  /\ req["r1"].op = "follow" /\ req["r1"].pc = "done" /\ req["r1"].resp.status = 200
  /\ req["r2"].op = "feed" /\ req["r2"].pc = "done"
  /\ req["r2"].user_id = req["r1"].user_id
  /\ \E i \in 1..Len(req["r2"].resp.body) :
       req["r2"].resp.body[i].user_id = req["r1"].target_id

\* ids of the User records
UserIds == {u.id : u \in users}

\* C12: a follow whose target id matches no User succeeds with the normal
\* acknowledgment and stores the Follow edge; and while no User has that id,
\* no feed shows a post under it.
C12_FollowUnknownTarget ==
  [][\A r \in Reqs :
       /\ (FollowEnds(r) /\ req[r].target_id \notin UserIds)
            => /\ req'[r].resp = Resp(200, "Tu suis maintenant", <<req[r].target_id>>)
               /\ BagIn(Edge(req[r].user_id, req[r].target_id), follows')
       /\ FeedRuns(r)
            => \A i \in 1..Len(req'[r].resp.body) : req'[r].resp.body[i].user_id \in UserIds
    ]_vars

\* a caller followed the id 999999, which no user has, and the caller's feed
\* is empty while posts are stored
C12_Witness ==
  /\ req["r1"].op = "follow" /\ req["r1"].pc = "done" /\ req["r1"].resp.status = 200
  /\ req["r1"].target_id = 999999 /\ 999999 \notin UserIds
  /\ BagIn(Edge(req["r1"].user_id, 999999), follows)
  /\ req["r2"].op = "feed" /\ req["r2"].pc = "done" /\ req["r2"].resp.status = 200
  /\ req["r2"].user_id = req["r1"].user_id
  /\ req["r2"].resp.body = <<>> /\ Len(posts) > 0

\* C13: in every reachable state every Post record's user_id is the id of
\* an existing User record.
C13_PostsReferenceUsers ==
  \A k \in 1..Len(posts) : posts[k].user_id \in UserIds

\* a user registered, logged in and posted
C13_Witness ==
  /\ Len(posts) > 0
  /\ \E r \in Reqs :
       /\ req[r].op = "create_post" /\ req[r].pc = "done" /\ req[r].resp.status = 200
       /\ req[r].user_id \in UserIds
       /\ \E k \in 1..Len(posts) : posts[k].user_id = req[r].user_id

\* slot r's request ends in this step
Ends(r) == req[r].pc \notin {"idle", "done"} /\ req'[r].pc = "done"
\* slot r takes a request in this step and the guard turns it away at once
Rejected(r) == req[r].pc = "idle" /\ req'[r].pc = "done" /\ req'[r].op \in AuthOps

\* the writes of the request that ends with success in slot r are in the store
Written(r) ==
  /\ req'[r].pending = <<>>
  /\ req[r].op = "register"
       => \E u \in users' : /\ u.username = req[r].username /\ u.email = req[r].email
                             /\ verify_password(req[r].password, u.password_hash)
  /\ req[r].op = "create_post"
       => \E k \in 1..Len(posts') :
            /\ posts'[k].id = req'[r].resp.body[1].id
            /\ posts'[k].user_id = req[r].user_id
            /\ posts'[k].content = req[r].content
  /\ req[r].op = "follow"
       => BagIn(Edge(req[r].user_id, req[r].target_id), follows')

\* C14: a request that ends in an error (register with 400, login with 401,
\* create-post, follow or feed turned away by the guard) adds, changes and
\* removes no record: the store changes only in the step in which a request
\* commits and answers with success, and then all its writes are stored.
C14_ErrorsLeaveStore ==
  [][/\ \A r \in Reqs :
          /\ (Ends(r) /\ req'[r].resp.status # 200) => store' = store
          /\ Rejected(r) => store' = store
          /\ (Ends(r) /\ req'[r].resp.status = 200) => Written(r)
     /\ store' # store
          => \E r \in Reqs : /\ req[r].pc = "commit" /\ Ends(r)
                              /\ req'[r].resp.status = 200
                              /\ \A q \in Reqs \ {r} : req'[q] = req[q]
    ]_vars

\* one registration is stored; a second, for the same username, was refused
\* with 400 after running its SELECT
C14_Witness ==
  \E r \in Reqs, q \in Reqs :
    /\ req[r].op = "register" /\ req[r].pc = "done" /\ req[r].resp.status = 200
    /\ req[q].op = "register" /\ req[q].pc = "done" /\ req[q].resp.status = 400
    /\ req[q].username = req[r].username
    /\ \A u \in users : u.email = req[r].email /\ u.email # req[q].email
    /\ users # {}

\* slot r takes a request for an authenticated endpoint in this step and the
\* guard lets it through
Admitted(r) == Arrives(r) /\ req'[r].pc # "done"

Sub(token) == ParseInt(token.has_sub, token.sub).val

\* C16: the Post a create-post request stores has user_id equal to the sub
\* of the token it presented, and the Follow edge a follow request stores
\* has follower_id equal to the sub of the token it presented, whatever the
\* content and the target are.
C16_WritesCarryTokenSub ==
  [][\A r \in Reqs :
       /\ (req[r].op = "create_post" /\ req[r].pc = "commit" /\ Ends(r))
            => /\ Len(posts') = Len(posts) + 1
               /\ SubSeq(posts', 1, Len(posts)) = posts
               /\ posts'[Len(posts')].user_id = Sub(req[r].token)
               /\ posts'[Len(posts')].content = req[r].content
       /\ FollowEnds(r)
            => \A e \in BagToSet(follows') :
                 CopiesIn(e, follows') > CopiesIn(e, follows)
                   => e.follower_id = Sub(req[r].token) /\ e.following_id = req[r].target_id
    ]_vars

\* a post is stored under its author's token sub, and an edge to another
\* user is stored under the follower's token sub
C16_Witness ==
  /\ req["r1"].op = "create_post" /\ req["r1"].pc = "done" /\ req["r1"].resp.status = 200
  /\ \E k \in 1..Len(posts) :
       posts[k].id = req["r1"].resp.body[1].id /\ posts[k].user_id = Sub(req["r1"].token)
  /\ req["r2"].op = "follow" /\ req["r2"].pc = "done" /\ req["r2"].resp.status = 200
  /\ req["r2"].target_id \in UserIds /\ req["r2"].target_id # Sub(req["r2"].token)
  /\ follows = SetToBag({[follower_id |-> Sub(req["r2"].token),
                          following_id |-> req["r2"].target_id]})

\* C17: no operation revokes a token: a token login issued for u at time t
\* is accepted, as u, by every request that presents it before t + the
\* expiry window, whichever requests were served in between, further logins
\* of u included; and the request it admits is served.
C17_NoRevocation ==
  [][\A r \in Reqs :
       /\ \A i \in issued :
            (Arrives(r) /\ req'[r].token = i.token /\ now < i.at + expireMinutes)
              => Admitted(r) /\ req'[r].user_id = i.user_id
       /\ (Ends(r) /\ req[r].op \in AuthOps) => req'[r].resp.status = 200
       /\ issued \subseteq issued'
    ]_vars

\* a request was served under a token although its user had logged in again
\* since that token was issued
C17_Witness ==
  \E r \in Reqs : \E i \in issued :
    /\ req[r].op \in AuthOps /\ req[r].pc = "done" /\ req[r].resp.status = 200
    /\ req[r].token = i.token /\ req[r].user_id = i.user_id
    /\ req[r].later

\* slot r's request takes a step
Steps(r) == req'[r] # req[r]

C19_SessionsReleased ==
  \A r \in Reqs :
    /\ req[r].pc \notin {"idle", "done"} => req[r].session = "open"
    /\ req[r].pc = "done" => req[r].session # "open"
    /\ (req[r].pc = "done" /\ req[r].op \in {"register", "login"})
         => req[r].session = "closed"
    /\ (req[r].pc = "done" /\ req[r].op \in AuthOps /\ req[r].resp.status = 200)
         => req[r].session = "closed"

\* a registration that succeeded and a login that failed have both finished
\* and both sessions are closed
C19_Witness ==
  \E r \in Reqs, q \in Reqs :
    /\ req[r].op = "register" /\ req[r].pc = "done" /\ req[r].resp.status = 200
    /\ req[q].op = "login" /\ req[q].pc = "done" /\ req[q].resp.status = 401
    /\ req[r].session = "closed" /\ req[q].session = "closed"
====
